---- MODULE Spec2Model ----
(***************************************************************************)
(* The MAGMA points ledger of the Base Incinerator dapp:                   *)
(*   POST /api/magma/record-burn  (src/app/api/magma/record-burn/route.ts) *)
(*   GET  /api/magma/profile      (same file, lines 275-365)               *)
(* Every `await` of the handler is a point where another request may run,  *)
(* so every awaited storage statement / oracle call is one action.  The    *)
(* wait of line 130 between two fetches touches nothing and is part of the *)
(* fetch action that decides to retry.                                     *)
(***************************************************************************)
EXTENDS Integers, Sequences, FiniteSets, TLC

(***************************************************************************)
(* Bounds of the model.                                                    *)
(***************************************************************************)
\* request slots: how many recordBurn calls may be in flight at once
MaxInFlight == 2
\* how many recordBurn calls are started in one behaviour
MaxCalls == 2
\* how many storage statements fail (connection lost, deadlock, ...) in one behaviour
MaxDbFailures == 1

(***************************************************************************)
(* Program constants.                                                      *)
(***************************************************************************)
MAGMA_PER_BURN == 100
REFERRAL_POINTS == 10
\* for (let attempt = 0; attempt < 3; attempt++)
MaxAttempts == 3
\* if (isNotFound && attempt < 2)
LastRetryAttempt == 2
\* /^0x[a-f0-9]{64}$/
TxHashDigits == 64
\* README: "invite friends and collect 10% of their MAGMA points"
ReferralPercent == 10
\* viem's isAddress: /^0x[a-fA-F0-9]{40}$/ (the pattern is spelled out in the wallet
\* assets route)
AddressDigits == 40

(***************************************************************************)
(* Strings are sequences of one-character strings.                         *)
(***************************************************************************)
Rep(c, n) == [i \in 1..n |-> c]

\* null, undefined and "" are all falsy for `if (!addr)`; one value stands for them.
NULL == << >>

LowerHex == {"0", "1", "2", "3", "4", "5", "6", "7", "8", "9", "a", "b", "c", "d", "e", "f"}
UpperHex == {"A", "B", "C", "D", "E", "F"}

lowerChar(c) ==
    CASE c = "A" -> "a" [] c = "B" -> "b" [] c = "C" -> "c"
      [] c = "D" -> "d" [] c = "E" -> "e" [] c = "F" -> "f"
      [] c = "X" -> "x" [] OTHER -> c

toLowerCase(s) == [i \in 1..Len(s) |-> lowerChar(s[i])]

RECURSIVE trimStart(_)
trimStart(s) == IF Len(s) > 0 /\ Head(s) = " " THEN trimStart(Tail(s)) ELSE s

RECURSIVE trimEnd(_)
trimEnd(s) ==
    IF Len(s) > 0 /\ s[Len(s)] = " " THEN trimEnd(SubSeq(s, 1, Len(s) - 1)) ELSE s

trim(s) == trimEnd(trimStart(s))

(***************************************************************************)
(* The addresses and hashes of the model.                                  *)
(***************************************************************************)
Addr(c) == <<"0", "x">> \o Rep(c, AddressDigits)
AddrA == Addr("a")
AddrB == Addr("b")
AddrC == Addr("c")
\* mixed-case spellings of AddrA: one whose EIP-55 checksum is right, one whose is wrong
AddrAChecksum == <<"0", "x">> \o Rep("A", 20) \o Rep("a", 20)
AddrABadCase == <<"0", "x">> \o Rep("a", 20) \o Rep("A", 20)
AddrShort == <<"0", "x", "a", "b">>
\* the incinerator contract, as lib/contract spells it (mixed case)
INCINERATOR_ADDRESS == <<"0", "x">> \o Rep("D", 20) \o Rep("e", 20)
OtherContract == Addr("9")

Tx(c) == <<"0", "x">> \o Rep(c, TxHashDigits)
TxH1 == Tx("1")
TxH2 == Tx("2")
TxH3 == Tx("3")
TxH4 == Tx("4")
TxH5 == Tx("5")
\* TxH1 as a client may send it: upper case, padded with blanks
TxH1Padded == <<" ", "0", "X">> \o Rep("1", TxHashDigits) \o <<" ">>
TxShort == <<"0", "x", "1", "2">>

(***************************************************************************)
(* 4.1 Address / hash normalizer                                           *)
(***************************************************************************)
\* EIP-55 needs keccak256; the model fixes which mixed-case spellings pass it.
Eip55Valid == {AddrAChecksum, INCINERATOR_ADDRESS}

isAddress(addr) ==
    /\ Len(addr) = 2 + AddressDigits
    /\ addr[1] = "0"
    /\ addr[2] = "x"
    /\ \A i \in 3..Len(addr) : addr[i] \in LowerHex \cup UpperHex
    /\ (toLowerCase(addr) = addr \/ addr \in Eip55Valid)

normalizeAddress(addr) ==
    IF addr = NULL THEN NULL
    ELSE IF isAddress(addr) THEN toLowerCase(addr) ELSE NULL

TxHashPattern(s) ==
    /\ Len(s) = 2 + TxHashDigits
    /\ s[1] = "0"
    /\ s[2] = "x"
    /\ \A i \in 3..Len(s) : s[i] \in LowerHex

\* faulty variant: the hash is trimmed and lower-cased, its shape not tested
normalizeTxHash_Unchecked(tx) ==
    IF tx = NULL THEN NULL ELSE toLowerCase(trim(tx))

normalizeTxHash(tx) ==
    IF tx = NULL THEN NULL
    ELSE LET trimmed == toLowerCase(trim(tx))
         IN  IF TxHashPattern(trimmed) THEN trimmed ELSE NULL

(***************************************************************************)
(* JavaScript values of the oracle's status field: a number, a string or   *)
(* undefined.  strictEq is ===, which never equates values of two types.   *)
(***************************************************************************)
JsNumber(n) == [t |-> "number", n |-> n, s |-> ""]
JsString(s) == [t |-> "string", n |-> 0, s |-> s]
Undefined == [t |-> "undefined", n |-> 0, s |-> ""]

strictEq(a, b) == a.t = b.t /\ a.n = b.n /\ a.s = b.s

\* a ?? b
Coalesce(a, b) == IF a = Undefined THEN b ELSE a

(***************************************************************************)
(* 4.2 The chain oracle (Moralis).  Chain is what is on chain; the oracle  *)
(* answers a query with the transaction, with "not indexed yet", with      *)
(* another error, or not at all.                                           *)
(***************************************************************************)
TxJson(from, to, status, code, name) ==
    [from_address |-> from, to_address |-> to, receipt_status |-> status,
     receipt_status_code |-> code, receipt_status_name |-> name]

NoJson == TxJson(NULL, NULL, Undefined, Undefined, Undefined)

TxHashes == {TxH1, TxH2, TxH3, TxH4, TxH5}

Chain(tx) ==
    CASE tx = TxH1 -> TxJson(AddrAChecksum, INCINERATOR_ADDRESS, JsString("1"), Undefined, Undefined)
      [] tx = TxH2 -> TxJson(AddrA, toLowerCase(INCINERATOR_ADDRESS), Undefined, Undefined, JsString("SUCCESS"))
      [] tx = TxH3 -> TxJson(AddrB, INCINERATOR_ADDRESS, JsNumber(1), Undefined, Undefined)
      [] tx = TxH4 -> TxJson(AddrA, OtherContract, JsString("1"), Undefined, Undefined)
      [] tx = TxH5 -> TxJson(AddrA, INCINERATOR_ADDRESS, JsString("0"), Undefined, Undefined)
      [] OTHER -> NoJson

HttpResponse(throws, ok, status, text, parses, json) ==
    [throws |-> throws, ok |-> ok, status |-> status, text |-> text,
     parses |-> parses, json |-> json]

\* the texts of the model that contain "no transaction found" once lower-cased
MentionsNoTransactionFound(text) ==
    text \in {"No transaction found", "no transaction found for hash"}

OracleAnswers(tx) ==
    { HttpResponse(FALSE, TRUE, 200, "", TRUE, Chain(tx)),
      HttpResponse(FALSE, TRUE, 200, "", FALSE, NoJson),
      HttpResponse(FALSE, FALSE, 404, "No transaction found", TRUE, NoJson),
      HttpResponse(FALSE, FALSE, 404, "Not Found", TRUE, NoJson),
      HttpResponse(FALSE, FALSE, 500, "no transaction found for hash", TRUE, NoJson),
      HttpResponse(FALSE, FALSE, 429, "Too Many Requests", TRUE, NoJson),
      HttpResponse(TRUE, FALSE, 0, "", TRUE, NoJson) }

isNotFound(res) == res.status = 404 /\ MentionsNoTransactionFound(res.text)

\* faulty variant: every 404 is retried, whatever its text
ShouldRetry_Any404(res, attempt) == res.status = 404 /\ attempt < LastRetryAttempt

\* if (isNotFound && attempt < 2) { await delay(3000); continue; }
ShouldRetry(res, attempt) == isNotFound(res) /\ attempt < LastRetryAttempt

statusRawOf(txJson) ==
    Coalesce(txJson.receipt_status,
             Coalesce(txJson.receipt_status_code, txJson.receipt_status_name))

isStatusOk(statusRaw) ==
    \/ strictEq(statusRaw, JsNumber(1))
    \/ strictEq(statusRaw, JsString("1"))
    \/ strictEq(statusRaw, JsString("SUCCESS"))
    \/ strictEq(statusRaw, JsString("success"))

isFromOk(from, wallet) == from = wallet

isToOk(to) == to = toLowerCase(INCINERATOR_ADDRESS)

\* faulty variant: the recipient is not checked
isValidBurn_AnyRecipient(txJson, wallet) ==
    /\ isFromOk(toLowerCase(txJson.from_address), wallet)
    /\ isStatusOk(statusRawOf(txJson))

\* if (!isFromOk || !isToOk || !isStatusOk) -> 400
isValidBurn(txJson, wallet) ==
    /\ isFromOk(toLowerCase(txJson.from_address), wallet)
    /\ isToOk(toLowerCase(txJson.to_address))
    /\ isStatusOk(statusRawOf(txJson))

(***************************************************************************)
(* State.                                                                  *)
(***************************************************************************)
VARIABLES
    users,       \* table magma_users: wallet_address -> row
    burns,       \* table magma_burns: the rows, in insertion order (id = position)
    req,         \* per request slot: where the handler is, and its locals
    apiKey,      \* process.env.MORALIS_API_KEY is set
    started,     \* number of recordBurn calls started so far
    dbFailures,  \* number of storage statements that have failed so far
    credited,    \* history: per txHash, the points the calls for it have credited
    last,        \* output: the call that has returned in the step just taken, if one has
    profile,     \* the getProfile request in flight: where its handler is, and its locals
    probe        \* the raw input under study, where a specification fixes one

vars == <<users, burns, req, apiKey, started, dbFailures, credited, last, profile, probe>>

Slots == 1..MaxInFlight

(***************************************************************************)
(* Rows and responses.                                                     *)
(***************************************************************************)
UserRow(total, earned, count, referredBy) ==
    [magma_points_total |-> total, referral_points_earned |-> earned,
     referral_count |-> count, referred_by_wallet |-> referredBy]

BurnRow(wallet, txHash, points) ==
    [wallet_address |-> wallet, tx_hash |-> txHash, points_awarded |-> points]

NoDetails == [from |-> NULL, to |-> NULL, status |-> Undefined]

\* NextResponse.json({ error }, { status })
ErrorResponse(status, error, details) ==
    [status |-> status, error |-> error, details |-> details,
     success |-> FALSE, alreadyCounted |-> FALSE, magmaPointsTotal |-> 0,
     awardedPoints |-> 0, referralPointsAwarded |-> 0, isNewUser |-> FALSE]

\* NextResponse.json({ success: true, ... })
SuccessResponse(alreadyCounted, total, awarded, referralAwarded, isNewUser) ==
    [status |-> 200, error |-> "", details |-> NoDetails,
     success |-> TRUE, alreadyCounted |-> alreadyCounted, magmaPointsTotal |-> total,
     awardedPoints |-> awarded, referralPointsAwarded |-> referralAwarded,
     isNewUser |-> isNewUser]

NoResponse == ErrorResponse(0, "", NoDetails)

\* faulty variant: no catch block, the exception leaves the handler without a response
InternalError_Unhandled == NoResponse

\* catch (err) { return NextResponse.json({ error: "Internal error" }, { status: 500 }) }
InternalError == ErrorResponse(500, "Internal error", NoDetails)

BadGateway == ErrorResponse(502, "Failed to fetch transaction from Moralis", NoDetails)

\* the body of a getProfile answer; rank is null (NULL) or a number n (<<n>>)
ProfileResponse(status, error, wallet, total, earned, count, referredBy, rank, totalUsers) ==
    [status |-> status, error |-> error, walletAddress |-> wallet,
     magmaPointsTotal |-> total, referralPointsEarned |-> earned,
     referralCount |-> count, referredByWallet |-> referredBy,
     rank |-> rank, totalUsers |-> totalUsers]

ProfileError(status, error) == ProfileResponse(status, error, NULL, 0, 0, 0, NULL, NULL, 0)

NoProfileResponse == ProfileError(0, "")

(***************************************************************************)
(* A request slot.  wallet, referrer, txHash, attempt, isNewUser,          *)
(* effectiveReferrer and referralPointsAwarded are the handler's locals;   *)
(* claimed (the referrer the body names, normalized), hadUser (the wallet  *)
(* had its row when the call began), fetches, writes, lookup, verified and *)
(* answer are history of the call.                                         *)
(***************************************************************************)
\* what the handler sees of an oracle response before it reads the JSON body
Answer(res) ==
    [throws |-> res.throws, ok |-> res.ok, status |-> res.status, text |-> res.text]

NoAnswer == [throws |-> FALSE, ok |-> FALSE, status |-> 0, text |-> ""]

IdleSlot ==
    [pc |-> "idle", wallet |-> NULL, referrer |-> NULL, txHash |-> NULL,
     attempt |-> 0, isNewUser |-> FALSE, effectiveReferrer |-> NULL,
     referralPointsAwarded |-> 0, claimed |-> NULL, hadUser |-> FALSE,
     fetches |-> 0, writes |-> 0, lookup |-> "none", verified |-> FALSE,
     answer |-> NoAnswer]

\* what is remembered of a call that has returned `resp`; `thrown` names the
\* exception the catch block caught, "none" when the handler returned by itself
ReturnedCall(r, resp, thrown) ==
    [wallet |-> r.wallet, txHash |-> r.txHash, resp |-> resp, thrown |-> thrown,
     fetches |-> r.fetches, writes |-> r.writes, lookup |-> r.lookup,
     verified |-> r.verified, answer |-> r.answer,
     profile |-> NoProfileResponse]

NoCall == ReturnedCall(IdleSlot, NoResponse, "none")

\* the handler of slot p goes on in state r: no response leaves the server
Step(p, r) ==
    /\ req' = [req EXCEPT ![p] = r]
    /\ last' = NoCall

\* the handler of slot p, in state r, returns resp: the slot is free again
Return(p, r, resp, thrown) ==
    /\ req' = [req EXCEPT ![p] = IdleSlot]
    /\ last' = ReturnedCall(r, resp, thrown)

InFlight(p) == req[p].pc # "idle"

\* the getProfile handler: wallet, user (the row read at line 307) and rank are
\* its locals
IdleProfile ==
    [pc |-> "idle", wallet |-> NULL, user |-> UserRow(0, 0, 0, NULL), rank |-> 0]

\* the getProfile handler goes on in state g
ProfileStep(g) ==
    /\ profile' = g
    /\ last' = NoCall

\* the getProfile handler returns resp
ProfileReturn(resp) ==
    /\ profile' = IdleProfile
    /\ last' = [NoCall EXCEPT !.profile = resp]

\* no raw input is under study
NoProbe == [kind |-> "none"]

Quiescent == \A p \in Slots : ~InFlight(p)

(***************************************************************************)
(* The request bodies of the model, and what lines 45-49 make of them.     *)
(***************************************************************************)
RequestBody(parses, walletAddress, txHash, referrer) ==
    [parses |-> parses, walletAddress |-> walletAddress, txHash |-> txHash,
     referrer |-> referrer]

RawWallets == {AddrA, AddrAChecksum, AddrABadCase, AddrShort, NULL}
RawReferrers == {NULL, AddrA, AddrB, AddrC, AddrShort}
RawTxHashes == {TxH1, TxH1Padded, TxH2, TxH3, TxH4, TxH5, TxShort, NULL}

Bodies ==
    { RequestBody(TRUE, w, t, r) : w \in RawWallets, t \in RawTxHashes, r \in RawReferrers }
        \cup { RequestBody(FALSE, NULL, NULL, NULL) }

\* const body = await req.json(); wallet, referrer, txHash = normalize...(body...)
parseBody(body) ==
    [parses |-> body.parses,
     wallet |-> normalizeAddress(body.walletAddress),
     referrer |-> normalizeAddress(body.referrer),
     txHash |-> normalizeTxHash(body.txHash)]

\* the distinct parsed requests (the same for every state, so computed once)
Requests == { parseBody(body) : body \in Bodies }

(***************************************************************************)
(* Init: both tables empty, no request in flight.                          *)
(***************************************************************************)
Init ==
    /\ users = << >>
    /\ burns = << >>
    /\ req = [p \in Slots |-> IdleSlot]
    /\ apiKey \in BOOLEAN
    /\ started = 0
    /\ dbFailures = 0
    /\ credited = [t \in TxHashes |-> [burner |-> 0, referrer |-> 0]]
    /\ last = NoCall
    /\ profile = IdleProfile
    /\ probe = NoProbe

(***************************************************************************)
(* Storage.  The schema is not part of the sources: wallet_address is the  *)
(* key of magma_users (the ON DUPLICATE KEY UPDATE of line 229 needs it),  *)
(* and tx_hash is UNIQUE in magma_burns (section 3 of the design).         *)
(***************************************************************************)
HasUser(w) == w \in DOMAIN users

\* SELECT id FROM magma_burns WHERE tx_hash = ?
burnRows(tx) == { i \in 1..Len(burns) : burns[i].tx_hash = tx }

\* faulty variant: tx_hash is an ordinary column
UniqueTxHash_NoConstraint(rows, tx) == TRUE

\* the UNIQUE constraint on magma_burns.tx_hash: may a row with this hash be inserted?
UniqueTxHash(rows, tx) == \A i \in 1..Len(rows) : rows[i].tx_hash # tx

\* userRows[0]?.magma_points_total ?? fallback
totalOf(w, fallback) == IF HasUser(w) THEN users[w].magma_points_total ELSE fallback

PutUser(w, row) == [x \in DOMAIN users \cup {w} |-> IF x = w THEN row ELSE users[x]]

Credit(tx, who, points) ==
    [credited EXCEPT ![tx] = [@ EXCEPT ![who] = @ + points]]

(***************************************************************************)
(* 4.3 recordBurn: POST, one action per awaited step.                      *)
(***************************************************************************)
\* faulty variant: a wallet may name itself
noSelfReferral_Keeps(referrer, wallet) == referrer

\* lines 62-65 and 197-199: no self-referral
noSelfReferral(referrer, wallet) == IF referrer = wallet THEN NULL ELSE referrer

\* lines 45-65: parse the body, normalize, validate, drop a self-referral.
\* A new call takes the first free slot.
POST_Begin(p, parsed) ==
    /\ ~InFlight(p)
    /\ \A q \in Slots : q < p => InFlight(q)
    /\ started < MaxCalls
    /\ started' = started + 1
    /\ LET wallet == parsed.wallet
           txHash == parsed.txHash
           referrer == noSelfReferral(parsed.referrer, wallet)
           r == [IdleSlot EXCEPT !.wallet = wallet, !.txHash = txHash,
                                 !.referrer = referrer, !.claimed = parsed.referrer,
                                 !.hadUser = HasUser(wallet)]
       IN  IF ~parsed.parses
             THEN Return(p, IdleSlot, InternalError, "json")
           ELSE IF wallet = NULL
             THEN Return(p, IdleSlot, ErrorResponse(400, "Invalid wallet address", NoDetails), "none")
           ELSE IF txHash = NULL
             THEN Return(p, r, ErrorResponse(400, "Invalid txHash", NoDetails), "none")
           ELSE Step(p, [r EXCEPT !.pc = "selectBurn"])
    /\ UNCHANGED <<users, burns, apiKey, dbFailures, credited, profile, probe>>

\* faulty variant: the duplicate check does not short-circuit
AfterBurnLookup_AlwaysVerify(found) == IF ~apiKey THEN "noApiKey" ELSE "fetch"

\* where the handler goes after the duplicate check (lines 73, 94-100)
AfterBurnLookup(found) ==
    IF found THEN "selectUserDup"
    ELSE IF ~apiKey THEN "noApiKey"
    ELSE "fetch"

\* lines 68-100: 1) was this txHash already processed?
SelectBurn(p) ==
    /\ req[p].pc = "selectBurn"
    /\ LET found == burnRows(req[p].txHash) # {}
           next == AfterBurnLookup(found)
           r == [req[p] EXCEPT !.lookup = IF found THEN "hit" ELSE "miss"]
       IN  IF next = "noApiKey"
             THEN Return(p, r, ErrorResponse(500, "Moralis API key missing", NoDetails), "none")
             ELSE Step(p, [r EXCEPT !.pc = next])
    /\ UNCHANGED <<users, burns, apiKey, started, dbFailures, credited, profile, probe>>

\* faulty variant: the already-counted branch never reports a new user
AlreadyCounted_NeverNew(w) == SuccessResponse(TRUE, totalOf(w, 0), 0, 0, FALSE)

\* faulty variant: the already-counted branch reports the award again
AlreadyCounted_Awards(w) ==
    SuccessResponse(TRUE, totalOf(w, 0) + MAGMA_PER_BURN, MAGMA_PER_BURN, 0, ~HasUser(w))

\* lines 80-90: the answer of the already-counted branch
AlreadyCounted(w) == SuccessResponse(TRUE, totalOf(w, 0), 0, 0, ~HasUser(w))

\* lines 75-90: already counted, just return the current total
SelectUserDup(p) ==
    /\ req[p].pc = "selectUserDup"
    /\ Return(p, req[p], AlreadyCounted(req[p].wallet), "none")
    /\ UNCHANGED <<users, burns, apiKey, started, dbFailures, credited, profile, probe>>

\* faulty variant: res.ok is not looked at
FetchOutcome_IgnoresOk(res, attempt) == "ok"

\* what one pass of the retry loop decides (lines 117-145)
FetchOutcome(res, attempt) ==
    IF res.ok THEN "ok"
    ELSE IF ShouldRetry(res, attempt)
      THEN (IF attempt + 1 < MaxAttempts THEN "retry" ELSE "fail")
    ELSE "fail"

\* the body of the 400 answer of lines 168-178
InvalidBurn(txJson) ==
    ErrorResponse(400, "Transaction is not a valid burn for this wallet",
                  [from |-> toLowerCase(txJson.from_address),
                   to |-> toLowerCase(txJson.to_address),
                   status |-> statusRawOf(txJson)])

\* lines 104-179: 2) one fetch of the retry loop, and, when it answers ok, the
\* verification of the transaction (no other request is touched in between)
Fetch(p, res) ==
    /\ req[p].pc = "fetch"
    /\ res \in OracleAnswers(req[p].txHash)
    /\ LET r == [req[p] EXCEPT !.fetches = @ + 1, !.answer = Answer(res)]
           outcome == FetchOutcome(res, r.attempt)
       IN  IF res.throws
             THEN Return(p, r, InternalError, "fetch")
           ELSE IF outcome = "retry"
             THEN Step(p, [r EXCEPT !.attempt = @ + 1])
           ELSE IF outcome = "fail"
             THEN Return(p, r, BadGateway, "none")
           ELSE IF ~res.parses
             THEN Return(p, r, InternalError, "json")
           ELSE IF ~isValidBurn(res.json, r.wallet)
             THEN Return(p, r, InvalidBurn(res.json), "none")
           ELSE Step(p, [r EXCEPT !.pc = "selectUser", !.verified = TRUE])
    /\ UNCHANGED <<users, burns, apiKey, started, dbFailures, credited, profile, probe>>

\* faulty variant: the referrer the request names wins over the stored one
effectiveReferrerOf_PrefersClaim(w, referrer) ==
    LET stored == IF HasUser(w) THEN users[w].referred_by_wallet ELSE NULL
        chosen == IF referrer # NULL THEN referrer ELSE stored
    IN  noSelfReferral(chosen, w)

\* existingUser?.referred_by_wallet ?? referrer ?? null, never the wallet itself
effectiveReferrerOf(w, referrer) ==
    LET stored == IF HasUser(w) THEN users[w].referred_by_wallet ELSE NULL
        chosen == IF stored # NULL THEN stored ELSE referrer
    IN  noSelfReferral(chosen, w)

\* lines 185-199: 3) does the user exist, and who is the effective referrer?
SelectUser(p) ==
    /\ req[p].pc = "selectUser"
    /\ Step(p, [req[p] EXCEPT !.pc = "upsertBurner",
                              !.isNewUser = ~HasUser(req[p].wallet),
                              !.effectiveReferrer =
                                  effectiveReferrerOf(req[p].wallet, req[p].referrer)])
    /\ UNCHANGED <<users, burns, apiKey, started, dbFailures, credited, profile, probe>>

\* faulty variant: a burner's first burn earns its referrer nothing
HasReferral_NotForNewUser(r) ==
    r.effectiveReferrer # NULL /\ r.effectiveReferrer # r.wallet /\ ~r.isNewUser

\* if (effectiveReferrer && effectiveReferrer !== wallet)
HasReferral(r) == r.effectiveReferrer # NULL /\ r.effectiveReferrer # r.wallet

\* faulty variant: the UPDATE assigns the referrer without COALESCE
BurnerUpdated_Overwrites(row, referrer) ==
    [row EXCEPT !.magma_points_total = @ + MAGMA_PER_BURN,
                !.referred_by_wallet = referrer]

\* the burner's row after UPDATE ... SET total = total + ?, referred_by = COALESCE(referred_by, ?)
BurnerUpdated(row, referrer) ==
    [row EXCEPT !.magma_points_total = @ + MAGMA_PER_BURN,
                !.referred_by_wallet = IF @ # NULL THEN @ ELSE referrer]

\* lines 202-217: insert or update the burner with +100
UpsertBurner(p) ==
    /\ req[p].pc = "upsertBurner"
    /\ LET r == req[p]
           w == r.wallet
           next == IF HasReferral(r) THEN "upsertReferrer" ELSE "insertBurn"
       IN  IF r.isNewUser /\ HasUser(w)
             THEN \* INSERT hits the key of a row another request has created
                  /\ Return(p, r, InternalError, "dupUser")
                  /\ UNCHANGED <<users, credited>>
             ELSE /\ users' = IF r.isNewUser
                                THEN PutUser(w, UserRow(MAGMA_PER_BURN, 0, 0, r.effectiveReferrer))
                                ELSE PutUser(w, BurnerUpdated(users[w], r.effectiveReferrer))
                  /\ credited' = Credit(r.txHash, "burner", MAGMA_PER_BURN)
                  /\ Step(p, [r EXCEPT !.pc = next, !.writes = @ + 1])
    /\ UNCHANGED <<burns, apiKey, started, dbFailures, profile, probe>>

\* faulty variant: every referred burn counts as a new referral
referralCountIncrement_Always(isNewUser) == 1

\* const referralCountIncrement = isNewUser ? 1 : 0
referralCountIncrement(isNewUser) == IF isNewUser THEN 1 ELSE 0

\* faulty variant: the row is written as given, an existing one replaced
ReferrerUpserted_Replaces(ref, inc) ==
    UserRow(REFERRAL_POINTS, REFERRAL_POINTS, inc, NULL)

\* the referrer's row after INSERT ... VALUES (?, 10, 10, inc) ON DUPLICATE KEY UPDATE
ReferrerUpserted(ref, inc) ==
    IF HasUser(ref)
      THEN [users[ref] EXCEPT !.magma_points_total = @ + REFERRAL_POINTS,
                              !.referral_points_earned = @ + REFERRAL_POINTS,
                              !.referral_count = @ + inc]
      ELSE UserRow(REFERRAL_POINTS, REFERRAL_POINTS, inc, NULL)

\* lines 222-243: INSERT ... ON DUPLICATE KEY UPDATE of the referrer's row
UpsertReferrer(p) ==
    /\ req[p].pc = "upsertReferrer"
    /\ LET r == req[p]
           ref == r.effectiveReferrer
           inc == referralCountIncrement(r.isNewUser)
       IN  /\ users' = PutUser(ref, ReferrerUpserted(ref, inc))
           /\ credited' = Credit(r.txHash, "referrer", REFERRAL_POINTS)
           /\ Step(p, [r EXCEPT !.pc = "insertBurn", !.writes = @ + 1,
                                !.referralPointsAwarded = REFERRAL_POINTS])
    /\ UNCHANGED <<burns, apiKey, started, dbFailures, profile, probe>>

\* lines 246-250: insert the magma_burns row that locks this txHash
InsertBurn(p) ==
    /\ req[p].pc = "insertBurn"
    /\ LET r == req[p]
       IN  IF UniqueTxHash(burns, r.txHash)
             THEN /\ burns' = Append(burns, BurnRow(r.wallet, r.txHash, MAGMA_PER_BURN))
                  /\ Step(p, [r EXCEPT !.pc = "selectUpdated", !.writes = @ + 1])
             ELSE \* the constraint rejects the row; the catch block answers
                  /\ Return(p, r, InternalError, "dupBurn")
                  /\ UNCHANGED burns
    /\ UNCHANGED <<users, apiKey, started, dbFailures, credited, profile, probe>>

\* lines 253-268: read the updated total and answer
SelectUpdated(p) ==
    /\ req[p].pc = "selectUpdated"
    /\ LET r == req[p]
       IN  Return(p, r, SuccessResponse(FALSE, totalOf(r.wallet, MAGMA_PER_BURN),
                                        MAGMA_PER_BURN, r.referralPointsAwarded,
                                        r.isNewUser), "none")
    /\ UNCHANGED <<users, burns, apiKey, started, dbFailures, credited, profile, probe>>

DbSteps ==
    {"selectBurn", "selectUserDup", "selectUser", "upsertBurner", "upsertReferrer",
     "insertBurn", "selectUpdated"}

\* any `await db.query(...)` may reject instead (lines 269-272 catch it)
DbFail(p) ==
    /\ req[p].pc \in DbSteps
    /\ dbFailures < MaxDbFailures
    /\ dbFailures' = dbFailures + 1
    /\ Return(p, req[p], InternalError, "db")
    /\ UNCHANGED <<users, burns, apiKey, started, credited, profile, probe>>

(***************************************************************************)
(* 4.4 getProfile: GET /api/magma/profile, one action per awaited step.    *)
(***************************************************************************)
RawProfileAddresses == {AddrA, AddrAChecksum, AddrB, AddrC, AddrShort, NULL}

\* lines 298-304: read and normalize the address parameter
GET_Begin(addr) ==
    /\ profile.pc = "idle"
    /\ LET wallet == normalizeAddress(addr)
       IN  IF wallet = NULL
             THEN ProfileReturn(ProfileError(400, "Invalid address"))
             ELSE ProfileStep([IdleProfile EXCEPT !.pc = "getUser", !.wallet = wallet])
    /\ UNCHANGED <<users, burns, req, apiKey, started, dbFailures, credited, probe>>

\* lines 307-317: 1) get the user row
GET_SelectUser ==
    /\ profile.pc = "getUser"
    /\ IF HasUser(profile.wallet)
         THEN ProfileStep([profile EXCEPT !.pc = "countBetter",
                                          !.user = users[profile.wallet]])
         ELSE ProfileStep([profile EXCEPT !.pc = "countTotalNoUser"])
    /\ UNCHANGED <<users, burns, req, apiKey, started, dbFailures, credited, probe>>

\* SELECT COUNT(*) FROM magma_users
totalUsers == Cardinality(DOMAIN users)

\* faulty variant: a wallet without a row is ranked last
NoUserProfile_RankedLast(wallet, total) ==
    ProfileResponse(200, "", wallet, 0, 0, 0, NULL, <<total + 1>>, total)

\* lines 324-332: the answer for a wallet that has no row
NoUserProfile(wallet, total) ==
    ProfileResponse(200, "", wallet, 0, 0, 0, NULL, NULL, total)

\* faulty variant: the read creates the missing row
GET_CountTotalNoUser_CreatesUser ==
    /\ profile.pc = "countTotalNoUser"
    /\ ProfileReturn(NoUserProfile(profile.wallet, totalUsers))
    /\ users' = PutUser(profile.wallet, UserRow(0, 0, 0, NULL))
    /\ UNCHANGED <<burns, req, apiKey, started, dbFailures, credited, probe>>

\* lines 319-332: the user has no points yet
GET_CountTotalNoUser ==
    /\ profile.pc = "countTotalNoUser"
    /\ ProfileReturn(NoUserProfile(profile.wallet, totalUsers))
    /\ UNCHANGED <<users, burns, req, apiKey, started, dbFailures, credited, probe>>

\* faulty variant: the count has no WHERE clause
betterCount_AllRows(points) == Cardinality(DOMAIN users)

\* faulty variant: equal totals count as better
betterCount_OrEqual(points) ==
    Cardinality({ w \in DOMAIN users : users[w].magma_points_total >= points }) - 1

\* SELECT COUNT(*) FROM magma_users WHERE magma_points_total > ?
betterCount(points) ==
    Cardinality({ w \in DOMAIN users : users[w].magma_points_total > points })

\* lines 335-344: 2) rank: number of users with more points + 1
GET_CountBetter ==
    /\ profile.pc = "countBetter"
    /\ ProfileStep([profile EXCEPT !.pc = "countTotal",
                                   !.rank = betterCount(profile.user.magma_points_total) + 1])
    /\ UNCHANGED <<users, burns, req, apiKey, started, dbFailures, credited, probe>>

\* lines 347-360: 3) total users, and the answer
GET_CountTotal ==
    /\ profile.pc = "countTotal"
    /\ ProfileReturn(ProfileResponse(200, "", profile.wallet,
                                     profile.user.magma_points_total,
                                     profile.user.referral_points_earned,
                                     profile.user.referral_count,
                                     profile.user.referred_by_wallet,
                                     <<profile.rank>>, totalUsers))
    /\ UNCHANGED <<users, burns, req, apiKey, started, dbFailures, credited, probe>>

\* any `await db.query(...)` of the handler may reject (lines 361-364 catch it)
GET_DbFail ==
    /\ profile.pc \in {"getUser", "countBetter", "countTotalNoUser", "countTotal"}
    /\ dbFailures < MaxDbFailures
    /\ dbFailures' = dbFailures + 1
    /\ ProfileReturn(ProfileError(500, "Internal error"))
    /\ UNCHANGED <<users, burns, req, apiKey, started, credited, probe>>

\* the steps of a getProfile request that has begun
ProfileHandler ==
    \/ GET_SelectUser
    \/ GET_CountTotalNoUser
    \/ GET_CountBetter
    \/ GET_CountTotal
    \/ GET_DbFail

(***************************************************************************)
(* Specifications.  Spec: calls overlap freely.  SpecSeq: the caller waits *)
(* for a response before it calls again.                                   *)
(***************************************************************************)
Handler(p) ==
    \/ SelectBurn(p)
    \/ SelectUserDup(p)
    \/ \E res \in OracleAnswers(req[p].txHash) : Fetch(p, res)
    \/ SelectUser(p)
    \/ UpsertBurner(p)
    \/ UpsertReferrer(p)
    \/ InsertBurn(p)
    \/ SelectUpdated(p)
    \/ DbFail(p)

Next ==
    \E p \in Slots :
        \/ \E parsed \in Requests : POST_Begin(p, parsed)
        \/ Handler(p)

NextSeq ==
    \E p \in Slots :
        \/ \E parsed \in Requests : Quiescent /\ POST_Begin(p, parsed)
        \/ Handler(p)

Spec == Init /\ [][Next]_vars

SpecSeq == Init /\ [][NextSeq]_vars

\* every awaited promise of a running handler settles (resolves or rejects)
Settles == \A p \in Slots : WF_vars(Handler(p))

\* overlapping calls of wallet A: two genuine burns and a reverted one, an
\* unreadable body among them
FairRequests ==
    { parseBody(RequestBody(ok, AddrA, t, r)) :
        ok \in BOOLEAN, t \in {TxH1, TxH2, TxH5}, r \in {NULL, AddrB} }

NextFair ==
    \E p \in Slots :
        \/ \E parsed \in FairRequests : POST_Begin(p, parsed)
        \/ Handler(p)

SpecFair == Init /\ [][NextFair]_vars /\ Settles

(***************************************************************************)
(* The ledger specifications.  The requests are well formed, the oracle is *)
(* configured, and the store at the start is the empty one or one that     *)
(* earlier calls have left: each Seeded store is the store after the       *)
(* successful calls its comment names, made on the empty store.            *)
(*   SpecLedger: one burner (A), the calls overlap freely.                 *)
(*   SpecLedgerSeq: two burners (A, B), the caller waits for a response    *)
(*   before it calls again.                                                *)
(***************************************************************************)
LedgerRequests(wallets) ==
    { parseBody(RequestBody(TRUE, w, t, r)) :
        w \in wallets, t \in {TxH1, TxH2, TxH3}, r \in {NULL, AddrA, AddrB, AddrC} }

OneBurnerRequests == LedgerRequests({AddrA})

TwoBurnerRequests == LedgerRequests({AddrA, AddrB})

NoCredit == [t \in TxHashes |-> [burner |-> 0, referrer |-> 0]]

Store(u, b, c) == [users |-> u, burns |-> b, credited |-> c]

Seeded ==
    { \* nothing has happened
      Store(<< >>, << >>, NoCredit),
      \* A has burned TxH1, claiming no referrer
      Store([w \in {AddrA} |-> UserRow(MAGMA_PER_BURN, 0, 0, NULL)],
            <<BurnRow(AddrA, TxH1, MAGMA_PER_BURN)>>,
            [NoCredit EXCEPT ![TxH1] = [burner |-> MAGMA_PER_BURN, referrer |-> 0]]),
      \* A has burned TxH1, claiming referrer B
      Store([w \in {AddrA, AddrB} |->
                IF w = AddrA THEN UserRow(MAGMA_PER_BURN, 0, 0, AddrB)
                             ELSE UserRow(REFERRAL_POINTS, REFERRAL_POINTS, 1, NULL)],
            <<BurnRow(AddrA, TxH1, MAGMA_PER_BURN)>>,
            [NoCredit EXCEPT ![TxH1] = [burner |-> MAGMA_PER_BURN,
                                        referrer |-> REFERRAL_POINTS]]),
      \* B has burned TxH3, claiming no referrer
      Store([w \in {AddrB} |-> UserRow(MAGMA_PER_BURN, 0, 0, NULL)],
            <<BurnRow(AddrB, TxH3, MAGMA_PER_BURN)>>,
            [NoCredit EXCEPT ![TxH3] = [burner |-> MAGMA_PER_BURN, referrer |-> 0]]) }

\* the seeded stores in which A is the only burner
SeededOneBurner ==
    { seed \in Seeded :
        \A i \in 1..Len(seed.burns) : seed.burns[i].wallet_address = AddrA }

InitSeeded(seeds) ==
    /\ \E seed \in seeds :
           /\ users = seed.users
           /\ burns = seed.burns
           /\ credited = seed.credited
    /\ req = [p \in Slots |-> IdleSlot]
    /\ apiKey = TRUE
    /\ started = 0
    /\ dbFailures = 0
    /\ last = NoCall
    /\ profile = IdleProfile
    /\ probe = NoProbe

InitLedger == InitSeeded(SeededOneBurner)

NextLedger ==
    \E p \in Slots :
        \/ \E parsed \in OneBurnerRequests : POST_Begin(p, parsed)
        \/ Handler(p)

SpecLedger == InitLedger /\ [][NextLedger]_vars

\* B has burned TxH3, claiming referrer A: A has a row and no burn of its own
ReferrerOnly ==
    Store([w \in {AddrA, AddrB} |->
              IF w = AddrB THEN UserRow(MAGMA_PER_BURN, 0, 0, AddrA)
                           ELSE UserRow(REFERRAL_POINTS, REFERRAL_POINTS, 1, NULL)],
          <<BurnRow(AddrB, TxH3, MAGMA_PER_BURN)>>,
          [NoCredit EXCEPT ![TxH3] = [burner |-> MAGMA_PER_BURN,
                                      referrer |-> REFERRAL_POINTS]])

\* overlapping burns of A, which has a row already and both its burns ahead
SpecReferred == InitSeeded({ReferrerOnly}) /\ [][NextLedger]_vars

InitLedgerSeq == InitSeeded(Seeded)

\* the same ledger, the caller waiting for a response before it calls again
NextLedgerSeq ==
    \E p \in Slots :
        \/ \E parsed \in TwoBurnerRequests : Quiescent /\ POST_Begin(p, parsed)
        \/ Handler(p)

SpecLedgerSeq == InitLedgerSeq /\ [][NextLedgerSeq]_vars

(***************************************************************************)
(* SpecInput: one client, one request body (any of Bodies, kept in probe), *)
(* sent and sent again, on the empty store.                                *)
(***************************************************************************)
BodyProbe(body) == [kind |-> "body", body |-> body]

InitInput ==
    /\ users = << >>
    /\ burns = << >>
    /\ req = [p \in Slots |-> IdleSlot]
    /\ apiKey = TRUE
    /\ started = 0
    /\ dbFailures = 0
    /\ credited = NoCredit
    /\ last = NoCall
    /\ profile = IdleProfile
    /\ probe \in { BodyProbe(body) : body \in Bodies }

NextInput ==
    \E p \in Slots :
        \/ Quiescent /\ POST_Begin(p, parseBody(probe.body))
        \/ Handler(p)

SpecInput == InitInput /\ [][NextInput]_vars

(***************************************************************************)
(* SpecVerify: the verification of lines 147-179 as a function of what the *)
(* oracle answers.  probe holds the wallet and the transaction JSON; the   *)
(* one action applies the three tests and records their outcome.           *)
(***************************************************************************)
\* the shapes the status fields of the answer may have
StatusValues ==
    {Undefined, JsNumber(1), JsNumber(0), JsString("1"), JsString("0"),
     JsString("SUCCESS"), JsString("success"), JsString("Success"), JsString("FAILED")}

StatusCodes == {Undefined, JsNumber(1), JsNumber(0)}

StatusNames ==
    {Undefined, JsString("SUCCESS"), JsString("success"), JsString("Success"),
     JsString("FAILED")}

TxJsons ==
    { TxJson(from, to, status, code, name) :
        from \in {AddrA, AddrAChecksum, AddrB},
        to \in {INCINERATOR_ADDRESS, toLowerCase(INCINERATOR_ADDRESS), OtherContract},
        status \in StatusValues, code \in StatusCodes, name \in StatusNames }

VerifyProbe(wallet, txJson) ==
    [kind |-> "verify", wallet |-> wallet, json |-> txJson, done |-> FALSE,
     isFromOk |-> FALSE, isToOk |-> FALSE, isStatusOk |-> FALSE, resp |-> NoResponse]

InitVerify ==
    /\ users = << >>
    /\ burns = << >>
    /\ req = [p \in Slots |-> IdleSlot]
    /\ apiKey = TRUE
    /\ started = 0
    /\ dbFailures = 0
    /\ credited = NoCredit
    /\ last = NoCall
    /\ profile = IdleProfile
    /\ probe \in { VerifyProbe(AddrA, txJson) : txJson \in TxJsons }

\* lines 147-179: from, to and statusRaw of the answer, the three tests, the 400
VerifyTransaction ==
    /\ probe.kind = "verify"
    /\ ~probe.done
    /\ probe' = [probe EXCEPT
                    !.done = TRUE,
                    !.isFromOk = isFromOk(toLowerCase(probe.json.from_address), probe.wallet),
                    !.isToOk = isToOk(toLowerCase(probe.json.to_address)),
                    !.isStatusOk = isStatusOk(statusRawOf(probe.json)),
                    !.resp = IF isValidBurn(probe.json, probe.wallet)
                               THEN NoResponse ELSE InvalidBurn(probe.json)]
    /\ UNCHANGED <<users, burns, req, apiKey, started, dbFailures, credited, last, profile>>

SpecVerify == InitVerify /\ [][VerifyTransaction]_vars

(***************************************************************************)
(* SpecProfile: recordBurn and getProfile requests on the seeded stores,   *)
(* one request at a time.                                                  *)
(***************************************************************************)
NoRequest == Quiescent /\ profile.pc = "idle"

NextProfile ==
    \/ \E p \in Slots :
           \/ \E parsed \in TwoBurnerRequests : NoRequest /\ POST_Begin(p, parsed)
           \/ Handler(p)
    \/ \E addr \in RawProfileAddresses : NoRequest /\ GET_Begin(addr)
    \/ ProfileHandler

SpecProfile == InitLedgerSeq /\ [][NextProfile]_vars

(***************************************************************************)
(* SpecReads: a getProfile request that overlaps recordBurn calls.  The    *)
(* recordBurn calls (of burner A) come one at a time; the steps of the     *)
(* getProfile request fall anywhere between their steps.                   *)
(***************************************************************************)
NextReads ==
    \/ \E p \in Slots :
           \/ \E parsed \in OneBurnerRequests : Quiescent /\ POST_Begin(p, parsed)
           \/ Handler(p)
    \/ \E addr \in RawProfileAddresses : GET_Begin(addr)
    \/ ProfileHandler

SpecReads == InitLedger /\ [][NextReads]_vars

(***************************************************************************)
(* Vocabulary of the properties.                                           *)
(***************************************************************************)
HasReturned == last # NoCall

PostVerifySteps ==
    {"selectUser", "upsertBurner", "upsertReferrer", "insertBurn", "selectUpdated"}

StoreUnchanged == users' = users /\ burns' = burns

\* what is on chain: the transaction succeeded, and is a burn by wallet w
Reverted(tx) == tx = TxH5

\* the (txHash, wallet) pairs that are genuine burns (the same in every state)
GenuineBurns ==
    { pair \in TxHashes \X {AddrA, AddrB, AddrC} :
        /\ toLowerCase(Chain(pair[1]).from_address) = pair[2]
        /\ toLowerCase(Chain(pair[1]).to_address) = toLowerCase(INCINERATOR_ADDRESS)
        /\ ~Reverted(pair[1]) }

GenuineBurn(tx, w) == <<tx, w>> \in GenuineBurns

\* from, to and status as the oracle reports them for each hash
Observed ==
    [tx \in TxHashes |->
        [from |-> toLowerCase(Chain(tx).from_address),
         to |-> toLowerCase(Chain(tx).to_address),
         status |-> statusRawOf(Chain(tx))]]

ObservedDetails(tx) == Observed[tx]

IsInvalidBurnResponse(resp) ==
    resp.status = 400 /\ resp.error = "Transaction is not a valid burn for this wallet"

\* the indexer's "not found yet": 404 with a text saying no transaction was found
NotFoundYet(answer) ==
    /\ ~answer.throws
    /\ ~answer.ok
    /\ answer.status = 404
    /\ answer.text \in {"No transaction found", "no transaction found for hash"}

\* any other non-success response
OtherFailure(answer) ==
    /\ ~answer.throws
    /\ ~answer.ok
    /\ answer # NoAnswer
    /\ ~NotFoundYet(answer)

(***************************************************************************)
(* C1.  Two concurrent recordBurn calls with the same valid txHash (no     *)
(* storage statement failing): at most one Burn record for the hash, the   *)
(* burner credited 100 once, the referrer credited at most once; and once  *)
(* no call is in flight a recorded hash has been credited exactly 100.     *)
(* The code violates it: both calls pass the check of line 68 and both     *)
(* credit the burner.                                                      *)
(***************************************************************************)
C1_ConcurrentSameTxOneAward ==
    dbFailures = 0 =>
        \A tx \in TxHashes :
            /\ Cardinality(burnRows(tx)) <= 1
            /\ credited[tx].burner <= MAGMA_PER_BURN
            /\ credited[tx].referrer <= REFERRAL_POINTS
            /\ (Quiescent /\ burnRows(tx) # {} => credited[tx].burner = MAGMA_PER_BURN)

(***************************************************************************)
(* C2.  The call whose INSERT into magma_burns is rejected by the          *)
(* uniqueness constraint answers success with alreadyCounted = true.       *)
(* The code violates it: the rejection reaches the catch block and is      *)
(* answered 500 "Internal error".                                          *)
(***************************************************************************)
C2_RejectedInsertIsAlreadyCounted ==
    last.thrown = "dupBurn" =>
        /\ last.resp.success
        /\ last.resp.alreadyCounted
        /\ last.resp.status = 200

(***************************************************************************)
(* C3.  Sequential calls.  A call for a (wallet, txHash) that had its Burn *)
(* record when it began changes no User and no Burn record and credits     *)
(* nothing                                                                 *)
(* at any of its steps, and, unless a storage statement of it fails,       *)
(* answers success with alreadyCounted = true, awardedPoints = 0,          *)
(* referralPointsAwarded = 0 and the wallet's stored total; the call that  *)
(* recorded the burn has answered that same stored total.                  *)
(***************************************************************************)
Recorded(tx, w) ==
    \E i \in 1..Len(burns) : burns[i].tx_hash = tx /\ burns[i].wallet_address = w

C3_FirstCallReportsStoredTotal ==
    (HasReturned /\ last.resp.success /\ ~last.resp.alreadyCounted) =>
        /\ Recorded(last.txHash, last.wallet)
        /\ HasUser(last.wallet)
        /\ last.resp.magmaPointsTotal = users[last.wallet].magma_points_total
        /\ last.resp.awardedPoints = MAGMA_PER_BURN

C3_SecondCallStep ==
    \A p \in Slots :
        (InFlight(p) /\ req[p].writes = 0 /\ Recorded(req[p].txHash, req[p].wallet)
             /\ req'[p] # req[p]) =>
            /\ StoreUnchanged
            /\ credited' = credited
            /\ req'[p].pc \in {"selectUserDup", "idle"}
            /\ (req'[p].pc = "idle" /\ last'.thrown # "db") =>
                   last'.resp = SuccessResponse(TRUE, users[req[p].wallet].magma_points_total,
                                                0, 0, FALSE)

\* C3: a sequential repeat of a recorded (wallet, txHash) awards nothing, changes
\* nothing and answers alreadyCounted with the total the first call answered
C3_SequentialIdempotency ==
    [](C3_FirstCallReportsStoredTotal) /\ [][C3_SecondCallStep]_vars

C3_Witness ==
    /\ last.lookup = "hit"
    /\ last.resp.success
    /\ last.resp.alreadyCounted
    /\ last.resp.magmaPointsTotal = MAGMA_PER_BURN
    /\ credited[last.txHash].burner = MAGMA_PER_BURN

(***************************************************************************)
(* C4.  Once no call is in flight, every txHash for which points have been *)
(* credited (to a burner or a referrer) has its Burn record.               *)
(* The code violates it: the statements of lines 203-250 are separate      *)
(* statements outside any transaction, and a failure between two of them   *)
(* leaves the credit without the record.                                   *)
(***************************************************************************)
C4_NoCreditWithoutBurnRecord ==
    (HasReturned /\ Quiescent) =>
        \A tx \in TxHashes :
            (credited[tx].burner > 0 \/ credited[tx].referrer > 0) => burnRows(tx) # {}

(***************************************************************************)
(* C5.  Sequential calls, the caller repeating a call that has ended with  *)
(* "Internal error": no txHash is ever credited more than 100 to its       *)
(* burner or more than 10 to its referrer, and when a call for it succeeds *)
(* the burner has been credited exactly 100.                               *)
(* The code violates it: the retry of a call that failed after line 217    *)
(* credits the burner again.                                               *)
(***************************************************************************)
C5_RetryNeverDoubleCredits ==
    /\ \A tx \in TxHashes :
           /\ credited[tx].burner <= MAGMA_PER_BURN
           /\ credited[tx].referrer <= REFERRAL_POINTS
    /\ (HasReturned /\ last.resp.success) =>
           credited[last.txHash].burner = MAGMA_PER_BURN

(***************************************************************************)
(* C6.  In every reachable state at most one Burn record exists for each   *)
(* txHash.                                                                 *)
(***************************************************************************)
C6_OneBurnRecordPerTxHash ==
    \A i, j \in 1..Len(burns) : burns[i].tx_hash = burns[j].tx_hash => i = j

\* a second insert of a recorded hash has been attempted, and rejected
C6_Witness ==
    /\ last.thrown = "dupBurn"
    /\ Cardinality(burnRows(last.txHash)) = 1

(***************************************************************************)
(* C7.  A call whose transaction is, on chain, not a successful burn by    *)
(* the claimed wallet to the incinerator never reaches the mutation steps  *)
(* and changes no User or Burn record at any of its steps; when the oracle *)
(* has answered with the transaction the call answers 400 "not a valid     *)
(* burn" carrying the observed from, to and status.                        *)
(***************************************************************************)
C7_InvalidBurnNeverMutates ==
    /\ \A p \in Slots :
           (req[p].pc \in PostVerifySteps \/ req[p].writes > 0) =>
               GenuineBurn(req[p].txHash, req[p].wallet)
    /\ (HasReturned /\ last.writes > 0) => GenuineBurn(last.txHash, last.wallet)
    /\ (HasReturned /\ last.answer.ok /\ last.thrown = "none"
            /\ ~GenuineBurn(last.txHash, last.wallet)) =>
           /\ IsInvalidBurnResponse(last.resp)
           /\ last.resp.details = ObservedDetails(last.txHash)
           /\ ~last.resp.success
    /\ IsInvalidBurnResponse(last.resp) =>
           /\ ~GenuineBurn(last.txHash, last.wallet)
           /\ last.writes = 0

C7_InvalidBurnStep ==
    \A p \in Slots :
        (InFlight(p) /\ ~GenuineBurn(req[p].txHash, req[p].wallet) /\ req'[p] # req[p]) =>
            StoreUnchanged

\* C7: a transaction failing the sender, recipient or status test is answered 400
\* with the observed values, and its call changes no User or Burn record
C7_VerificationGate ==
    [](C7_InvalidBurnNeverMutates) /\ [][C7_InvalidBurnStep]_vars

\* the three ways of failing the gate are told apart by the hash
C7_Witness ==
    /\ IsInvalidBurnResponse(last.resp)
    /\ last.txHash = TxH4
    /\ last.resp.details.to = OtherContract
    /\ last.wallet = AddrA

(***************************************************************************)
(* C8.  A call whose last oracle response is a terminal failure, or a      *)
(* third "not found yet", answers 502 and has written nothing; no call     *)
(* executes a storage write before its verification has succeeded, and no  *)
(* step of the retry loop changes the store.                               *)
(***************************************************************************)
C8_OracleFailureLeavesStore ==
    /\ (HasReturned /\ (OtherFailure(last.answer)
                          \/ (NotFoundYet(last.answer) /\ last.fetches = MaxAttempts))) =>
           /\ last.resp = BadGateway
           /\ last.writes = 0
           /\ ~last.verified
    /\ last.resp = BadGateway => (last.writes = 0 /\ ~last.answer.ok)
    /\ \A p \in Slots : req[p].writes > 0 => req[p].verified
    /\ last.writes > 0 => last.verified

C8_FetchStep ==
    \A p \in Slots : (req[p].pc = "fetch" /\ req'[p] # req[p]) => StoreUnchanged

C9_BoundedRetry ==
    /\ last.fetches <= MaxAttempts
    /\ \A p \in Slots :
           /\ req[p].fetches <= MaxAttempts
           /\ (req[p].pc = "fetch" /\ req[p].fetches > 0) =>
                  /\ NotFoundYet(req[p].answer)
                  /\ req[p].fetches < MaxAttempts
           /\ ~OtherFailure(req[p].answer)
    /\ (HasReturned /\ OtherFailure(last.answer)) =>
           (last.resp.status = 502 /\ ~last.resp.success)
    /\ (HasReturned /\ NotFoundYet(last.answer) /\ last.fetches = MaxAttempts) =>
           (last.resp.status = 502 /\ ~last.resp.success)

\* a terminal failure at the second attempt, after one "not found yet"
C9_Witness ==
    /\ OtherFailure(last.answer)
    /\ last.fetches = 2
    /\ last.resp.status = 502

(***************************************************************************)
(* C10.  The Burn-record lookup precedes every oracle call of a call, and  *)
(* a call whose lookup has found a record makes no oracle call.            *)
(***************************************************************************)
C10_LookupBeforeOracle ==
    /\ \A p \in Slots :
           /\ (req[p].pc = "fetch" \/ req[p].fetches > 0) => req[p].lookup = "miss"
           /\ req[p].lookup = "hit" => (req[p].fetches = 0 /\ req[p].pc = "selectUserDup")
    /\ last.fetches > 0 => last.lookup = "miss"
    /\ last.lookup = "hit" => last.fetches = 0

C10_Witness ==
    /\ last.lookup = "hit"
    /\ last.fetches = 0
    /\ last.resp.alreadyCounted
    /\ last.txHash = TxH2

(***************************************************************************)
(* C11.  No User record names itself as its referrer, and no step of a     *)
(* call by a wallet changes that wallet's own referralPointsEarned,        *)
(* whatever referrer the call claims.                                      *)
(***************************************************************************)
earnedOf(table, w) ==
    IF w \in DOMAIN table THEN table[w].referral_points_earned ELSE 0

C11_NoSelfReferredUser ==
    /\ \A w \in DOMAIN users : users[w].referred_by_wallet # w
    /\ \A p \in Slots : req[p].effectiveReferrer # NULL =>
                             req[p].effectiveReferrer # req[p].wallet

C11_OwnBurnStep ==
    \A p \in Slots :
        (InFlight(p) /\ req'[p] # req[p]) =>
            earnedOf(users', req[p].wallet) = earnedOf(users, req[p].wallet)

\* C11: referredByWallet never equals the record's own address, and a call by A
\* never adds a referral bonus to A for A's own burn
C11_NoSelfReferral == [](C11_NoSelfReferredUser) /\ [][C11_OwnBurnStep]_vars

\* a first burn by A that names A itself has been recorded
C11_Witness ==
    \E p \in Slots :
        /\ req[p].pc = "selectUpdated"
        /\ req[p].claimed = req[p].wallet
        /\ req[p].isNewUser
        /\ users[req[p].wallet] = UserRow(MAGMA_PER_BURN, 0, 0, NULL)
        /\ Recorded(req[p].txHash, req[p].wallet)

(***************************************************************************)
(* C12.  First referrer wins: a referred_by_wallet that holds an address   *)
(* holds the same address after every step, of whatever call.              *)
(***************************************************************************)
C12_ReferrerKeptStep ==
    \A w \in DOMAIN users :
        users[w].referred_by_wallet # NULL =>
            /\ w \in DOMAIN users'
            /\ users'[w].referred_by_wallet = users[w].referred_by_wallet

\* C12: once referredByWallet is set, no later call, sequential or concurrent,
\* changes it
C12_FirstReferrerWins == [][C12_ReferrerKeptStep]_vars

\* a call that had chosen another referrer has updated the row, which keeps its own
C12_Witness ==
    \E p \in Slots :
        /\ req[p].writes > 0
        /\ ~req[p].isNewUser
        /\ req[p].effectiveReferrer # NULL
        /\ users[req[p].wallet].referred_by_wallet # NULL
        /\ users[req[p].wallet].referred_by_wallet # req[p].effectiveReferrer

(***************************************************************************)
(* C13.  Sequential calls.  A call by a wallet whose record names referrer *)
(* B, claiming another address C: no step of it changes C's record (or     *)
(* creates one); its referral step adds 10 to B's magmaPointsTotal and     *)
(* referralPointsEarned; and its answer reports referralPointsAwarded 10.  *)
(***************************************************************************)
pointsOf(table, w) ==
    IF w \in DOMAIN table THEN table[w].magma_points_total ELSE 0

storedReferrer(w) == IF HasUser(w) THEN users[w].referred_by_wallet ELSE NULL

\* the call of slot p claims a referrer other than the one its wallet's record names
ClaimsOtherReferrer(p) ==
    /\ InFlight(p)
    /\ storedReferrer(req[p].wallet) # NULL
    /\ req[p].claimed \notin {NULL, req[p].wallet, storedReferrer(req[p].wallet)}

C13_LaterClaimStep ==
    \A p \in Slots :
        (ClaimsOtherReferrer(p) /\ req'[p] # req[p]) =>
            LET B == storedReferrer(req[p].wallet)
                C == req[p].claimed
            IN  /\ (C \in DOMAIN users') = (C \in DOMAIN users)
                /\ (C \in DOMAIN users => users'[C] = users[C])
                /\ (req[p].pc = "upsertBurner" /\ req'[p].pc # "idle") =>
                       /\ req'[p].pc = "upsertReferrer"
                       /\ req[p].effectiveReferrer = B
                /\ (req[p].pc = "upsertReferrer" /\ req'[p].pc # "idle") =>
                       /\ pointsOf(users', B) = pointsOf(users, B) + REFERRAL_POINTS
                       /\ earnedOf(users', B) = earnedOf(users, B) + REFERRAL_POINTS
                /\ (req[p].pc = "selectUpdated" /\ last'.thrown = "none") =>
                       /\ last'.resp.success
                       /\ last'.resp.referralPointsAwarded = REFERRAL_POINTS

\* C13: with referredByWallet = B stored, a later burn claiming C credits nothing
\* to C, and its 10-point bonus goes to B
C13_StoredReferrerIsCredited == [][C13_LaterClaimStep]_vars

\* A, referred by B, has burned again claiming C: B has its second bonus, C no record
C13_Witness ==
    \E p \in Slots :
        /\ req[p].pc = "selectUpdated"
        /\ req[p].wallet = AddrA
        /\ req[p].claimed = AddrC
        /\ HasUser(AddrB)
        /\ users[AddrA].referred_by_wallet = AddrB
        /\ users[AddrB].referral_points_earned = 2 * REFERRAL_POINTS
        /\ ~HasUser(AddrC)

(***************************************************************************)
(* C14.  Sequential calls.  The referral step of a call adds 10 to the     *)
(* referrer's magmaPointsTotal and referralPointsEarned, and adds 1 to its *)
(* referralCount when the burner had no User record before the call, 0     *)
(* when it had one; no other step changes any referralCount; and a call    *)
(* with an effective referrer does take the referral step.                 *)
(***************************************************************************)
countOf(table, w) ==
    IF w \in DOMAIN table THEN table[w].referral_count ELSE 0

IsReferralStep(p) == req[p].pc = "upsertReferrer" /\ req'[p].pc = "insertBurn"

C14_ReferralCountStep ==
    \A p \in Slots :
        (InFlight(p) /\ req'[p] # req[p]) =>
            LET R == req[p].effectiveReferrer
            IN  /\ IsReferralStep(p) =>
                       /\ pointsOf(users', R) = pointsOf(users, R) + REFERRAL_POINTS
                       /\ earnedOf(users', R) = earnedOf(users, R) + REFERRAL_POINTS
                       /\ countOf(users', R) =
                              countOf(users, R) + (IF req[p].hadUser THEN 0 ELSE 1)
                /\ \A w \in DOMAIN users' :
                       (~IsReferralStep(p) \/ w # R) => countOf(users', w) = countOf(users, w)
                /\ (req[p].pc = "upsertBurner" /\ R # NULL /\ req'[p].pc # "idle") =>
                       req'[p].pc = "upsertReferrer"

\* C14: referralCount grows by 1 only for a burner that had no record before the
\* call; a referred burn by an existing burner adds the 10 points and no count
C14_CountOnlyNewBurners == [][C14_ReferralCountStep]_vars

\* the referral step of a burner that had its record: points twice, count once
C14_Witness ==
    \E p \in Slots :
        /\ req[p].pc = "insertBurn"
        /\ req[p].hadUser
        /\ req[p].referralPointsAwarded = REFERRAL_POINTS
        /\ users[req[p].effectiveReferrer].referral_points_earned = 2 * REFERRAL_POINTS
        /\ users[req[p].effectiveReferrer].referral_count = 1

(***************************************************************************)
(* C15.  Sequential calls.  A valid burn by a wallet A that had no User    *)
(* record, claiming a referrer B other than A: the burner step leaves A    *)
(* with (100, referred by B); the referral step adds 10, 10 and 1 to B's   *)
(* magmaPointsTotal, referralPointsEarned and referralCount, creating B's  *)
(* record as (10, 10, 1) when B had none; and the answer is isNewUser,     *)
(* awardedPoints 100, referralPointsAwarded 10, magmaPointsTotal 100.      *)
(***************************************************************************)
\* the call of slot p is a first burn that names a referrer
FirstBurnWithReferrer(p) ==
    /\ InFlight(p)
    /\ ~req[p].hadUser
    /\ req[p].claimed \notin {NULL, req[p].wallet}

C15_FirstBurnStep ==
    \A p \in Slots :
        (FirstBurnWithReferrer(p) /\ req'[p] # req[p] /\ req'[p].pc # "idle") =>
            LET A == req[p].wallet
                B == req[p].claimed
            IN  /\ req[p].pc = "upsertBurner" =>
                       /\ users'[A] = UserRow(MAGMA_PER_BURN, 0, 0, B)
                       /\ req'[p].pc = "upsertReferrer"
                /\ req[p].pc = "upsertReferrer" =>
                       /\ pointsOf(users', B) = pointsOf(users, B) + REFERRAL_POINTS
                       /\ earnedOf(users', B) = earnedOf(users, B) + REFERRAL_POINTS
                       /\ countOf(users', B) = countOf(users, B) + 1
                       /\ ~HasUser(B) =>
                              users'[B] = UserRow(REFERRAL_POINTS, REFERRAL_POINTS, 1, NULL)
                       /\ users'[A] = users[A]

C15_FirstBurnAnswer ==
    \A p \in Slots :
        (FirstBurnWithReferrer(p) /\ req[p].pc = "selectUpdated" /\ req'[p].pc = "idle"
             /\ last'.thrown = "none") =>
            /\ last'.resp = SuccessResponse(FALSE, MAGMA_PER_BURN, MAGMA_PER_BURN,
                                            REFERRAL_POINTS, TRUE)
            /\ users'[req[p].wallet] = UserRow(MAGMA_PER_BURN, 0, 0, req[p].claimed)

\* C15: a first burn by A claiming referrer B gives A 100 and referredByWallet B,
\* gives B 10 points, 10 referral points and 1 referral, and answers
\* isNewUser, 100 awarded, 10 referral points awarded
C15_FirstBurnWithReferrer == [][C15_FirstBurnStep /\ C15_FirstBurnAnswer]_vars

\* the first burn of A has been answered; B, who had no record, has (10, 10, 1)
C15_Witness ==
    /\ last.resp = SuccessResponse(FALSE, MAGMA_PER_BURN, MAGMA_PER_BURN,
                                   REFERRAL_POINTS, TRUE)
    /\ last.wallet = AddrA
    /\ HasUser(AddrA)
    /\ HasUser(AddrB)
    /\ users[AddrA] = UserRow(MAGMA_PER_BURN, 0, 0, AddrB)
    /\ users[AddrB] = UserRow(REFERRAL_POINTS, REFERRAL_POINTS, 1, NULL)

(***************************************************************************)
(* C16.  Once no call is in flight, and no storage statement having        *)
(* failed, every referrer R has earned 10% of the points of all Burn       *)
(* records of the users whose referredByWallet is R.                       *)
(* The code violates it: a burn earns the referrer of that moment a fixed  *)
(* 10 points, so the burns a user made before a referrer was attached to   *)
(* it earn that referrer nothing.                                          *)
(***************************************************************************)
RECURSIVE pointsBurnedFor(_, _)
\* the sum of points_awarded over the Burn records (of rows) whose burner names R
pointsBurnedFor(rows, R) ==
    IF rows = << >> THEN 0
    ELSE LET row == Head(rows)
             mine == /\ HasUser(row.wallet_address)
                     /\ users[row.wallet_address].referred_by_wallet = R
         IN  (IF mine THEN row.points_awarded ELSE 0) + pointsBurnedFor(Tail(rows), R)

C16_ReferrerEarnsTenPercent ==
    (Quiescent /\ dbFailures = 0) =>
        \A R \in DOMAIN users :
            100 * users[R].referral_points_earned = ReferralPercent * pointsBurnedFor(burns, R)

(***************************************************************************)
(* C17.  Requests one at a time.  getProfile for a wallet that has a User  *)
(* record answers rank = 1 + the number of User records with a strictly    *)
(* greater magmaPointsTotal (so equal totals share a rank, and the rank    *)
(* after a tie skips), with the record's total and the number of records.  *)
(***************************************************************************)
ProfileAnswered == last.profile.status = 200

GreaterCount(w) ==
    Cardinality({ x \in DOMAIN users :
                    users[x].magma_points_total > users[w].magma_points_total })

C17_RankCountsStrictlyGreater ==
    (ProfileAnswered /\ HasUser(last.profile.walletAddress)) =>
        LET w == last.profile.walletAddress
        IN  /\ last.profile.rank = <<1 + GreaterCount(w)>>
            /\ last.profile.magmaPointsTotal = users[w].magma_points_total
            /\ last.profile.totalUsers = Cardinality(DOMAIN users)
            /\ \A x \in DOMAIN users :
                   users[x].magma_points_total = users[w].magma_points_total =>
                       last.profile.rank = <<1 + GreaterCount(x)>>

\* A and B hold equal totals and C less: C is answered rank 3 of 3
C17_Witness ==
    /\ ProfileAnswered
    /\ last.profile.walletAddress = AddrC
    /\ last.profile.rank = <<3>>
    /\ last.profile.totalUsers = 3
    /\ DOMAIN users = {AddrA, AddrB, AddrC}
    /\ users[AddrA].magma_points_total = users[AddrB].magma_points_total

(***************************************************************************)
(* C18.  Requests one at a time.  getProfile for a well-formed address     *)
(* that has no User record answers success with magmaPointsTotal 0,        *)
(* referralPointsEarned 0, referralCount 0, referredByWallet null, rank    *)
(* null and totalUsers = the number of User records; every successful      *)
(* answer, found or not, carries that totalUsers.                          *)
(***************************************************************************)
C18_ZeroedDefaults ==
    /\ (ProfileAnswered /\ ~HasUser(last.profile.walletAddress)) =>
           last.profile = ProfileResponse(200, "", last.profile.walletAddress,
                                          0, 0, 0, NULL, NULL, Cardinality(DOMAIN users))
    /\ ProfileAnswered => last.profile.totalUsers = Cardinality(DOMAIN users)
    /\ profile.pc = "countTotalNoUser" => ~HasUser(profile.wallet)
    /\ profile.pc \in {"countBetter", "countTotal"} => HasUser(profile.wallet)

\* C, who has no record while A and B have theirs, is answered the defaults
C18_Witness ==
    /\ ProfileAnswered
    /\ last.profile.walletAddress = AddrC
    /\ last.profile.rank = NULL
    /\ last.profile.totalUsers = 2
    /\ DOMAIN users = {AddrA, AddrB}

(***************************************************************************)
(* C19.  A call whose wallet address or transaction hash is malformed (or  *)
(* absent) is answered 400 at once: it is never in flight, so it reads and *)
(* writes no storage and calls no oracle.  A call whose wallet and hash    *)
(* are well formed and whose referrer is malformed or absent goes on as a  *)
(* call without referrer, and is never answered invalid input.             *)
(***************************************************************************)
MalformedWallets == {AddrShort, AddrABadCase, NULL}

MalformedTxHashes == {TxShort, NULL}

MalformedReferrers == {AddrShort, NULL}

InvalidInputErrors == {"Invalid wallet address", "Invalid txHash"}

C19_MalformedInput ==
    LET body == probe.body
        badWallet == body.walletAddress \in MalformedWallets
        badTxHash == body.txHash \in MalformedTxHashes
    IN  /\ (body.parses /\ (badWallet \/ badTxHash)) =>
               /\ Quiescent
               /\ users = << >>
               /\ burns = << >>
               /\ HasReturned =>
                      /\ last.resp.status = 400
                      /\ last.resp.error \in InvalidInputErrors
                      /\ ~last.resp.success
                      /\ last.lookup = "none"
                      /\ last.fetches = 0
                      /\ last.writes = 0
        /\ (body.parses /\ ~badWallet /\ ~badTxHash) =>
               /\ last.resp.error \notin InvalidInputErrors
               /\ body.referrer \in MalformedReferrers =>
                      /\ \A p \in Slots : req[p].referrer = NULL /\ req[p].claimed = NULL
                      /\ \A w \in DOMAIN users :
                             /\ w = toLowerCase(body.walletAddress)
                             /\ users[w].referred_by_wallet = NULL
                      /\ last.resp.referralPointsAwarded = 0

\* a short hash, sent with a well-formed wallet, has been answered
C19_Witness ==
    /\ probe.body.walletAddress = AddrAChecksum
    /\ probe.body.txHash = TxShort
    /\ last.resp = ErrorResponse(400, "Invalid txHash", NoDetails)
    /\ last.fetches = 0

(***************************************************************************)
(* C20.  The status the oracle reports counts as success exactly when it   *)
(* is the number 1, the string "1", or a success name in any letter case.  *)
(* The code violates it: the name is compared with === to "SUCCESS" and to *)
(* "success" only, so "Success" is not accepted.                           *)
(***************************************************************************)
\* the spellings of the success name among the status values of the model
SuccessNames == {"SUCCESS", "success", "Success"}

IsSuccessStatus(statusRaw) ==
    \/ statusRaw = JsNumber(1)
    \/ statusRaw = JsString("1")
    \/ (statusRaw.t = "string" /\ statusRaw.s \in SuccessNames)

C20_StatusAnyLetterCase ==
    (probe.kind = "verify" /\ probe.done) =>
        (probe.isStatusOk <=> IsSuccessStatus(statusRawOf(probe.json)))

(***************************************************************************)
(* C21.  In every state the three counters of every User record are        *)
(* non-negative, and no step of a recordBurn call or of a getProfile       *)
(* request removes a User record or lowers one of its counters.            *)
(***************************************************************************)
C21_NonNegativeCounters ==
    \A w \in DOMAIN users :
        /\ users[w].magma_points_total >= 0
        /\ users[w].referral_points_earned >= 0
        /\ users[w].referral_count >= 0

C21_CountersStep ==
    \A w \in DOMAIN users :
        /\ w \in DOMAIN users'
        /\ users'[w].magma_points_total >= users[w].magma_points_total
        /\ users'[w].referral_points_earned >= users[w].referral_points_earned
        /\ users'[w].referral_count >= users[w].referral_count

\* C21: magmaPointsTotal, referralPointsEarned and referralCount are never
\* negative and never decrease
C21_MonotoneCounters == [](C21_NonNegativeCounters) /\ [][C21_CountersStep]_vars

\* a referrer credited a second time, read by a profile request in flight
C21_Witness ==
    /\ profile.pc = "countTotal"
    /\ profile.wallet = AddrB
    /\ HasUser(AddrB)
    /\ users[AddrB].referral_points_earned = 2 * REFERRAL_POINTS
    /\ users[AddrB].referral_count = 1

(***************************************************************************)
(* C22.  Overlapping calls by one wallet for different valid hashes, no    *)
(* storage statement failing: a verified call of a wallet that has another *)
(* hash recorded answers success and leaves its own Burn record, and a     *)
(* wallet (no referrer of anyone) with n Burn records, each credited once, *)
(* holds 100 n points.                                                     *)
(* The code violates it: two first burns both find no User record, both    *)
(* INSERT it, and the second INSERT is rejected by the key and answered    *)
(* 500: that burn is neither credited nor recorded.                        *)
(***************************************************************************)
recordsOf(w) == { i \in 1..Len(burns) : burns[i].wallet_address = w }

HasOtherBurn(w, tx) == \E i \in recordsOf(w) : burns[i].tx_hash # tx

C22_ConcurrentBurnsBothCount ==
    /\ (HasReturned /\ last.verified /\ dbFailures = 0 /\ last.thrown # "dupBurn"
            /\ HasOtherBurn(last.wallet, last.txHash)) =>
           /\ last.resp.success
           /\ Recorded(last.txHash, last.wallet)
    /\ (Quiescent /\ dbFailures = 0
            /\ \A tx \in TxHashes : credited[tx].burner <= MAGMA_PER_BURN) =>
           \A w \in DOMAIN users :
               users[w].referral_points_earned = 0 =>
                   users[w].magma_points_total = MAGMA_PER_BURN * Cardinality(recordsOf(w))

(***************************************************************************)
(* C23.  Whenever no call is in flight, every User record holds            *)
(* magmaPointsTotal = 100 x (its Burn records) + referralPointsEarned,     *)
(* whatever calls have overlapped, failed or been repeated.                *)
(* The code violates it: a call that fails after the burner's row was      *)
(* written (C4) leaves 100 points without a Burn record, and two           *)
(* overlapping calls for one hash (C1) leave 200 points with one.          *)
(***************************************************************************)
C23_TotalIsBurnsPlusReferrals ==
    Quiescent =>
        \A w \in DOMAIN users :
            users[w].magma_points_total =
                MAGMA_PER_BURN * Cardinality(recordsOf(w)) + users[w].referral_points_earned

(***************************************************************************)
(* C24.  A call of wallet A credits a referral bonus to R only when R is   *)
(* A's stored referredByWallet at the time the call has written: once the  *)
(* call has upserted the referrer, the burner's row names that referrer.   *)
(* Two overlapping burns of an existing unreferred wallet that claim       *)
(* different referrers both read referred_by_wallet = NULL at line 185,    *)
(* so both referrers are credited while the row keeps only one of them.    *)
(* (Stated for runs in which no hash was credited twice, so that the       *)
(* two burns are different transactions.)                                  *)
(***************************************************************************)
C24_BonusOnlyToStoredReferrer ==
    \A p \in Slots :
        (/\ \A tx \in TxHashes : credited[tx].burner <= MAGMA_PER_BURN
         /\ req[p].pc \in {"insertBurn", "selectUpdated"}
         /\ req[p].referralPointsAwarded > 0
         /\ HasUser(req[p].wallet)) =>
            users[req[p].wallet].referred_by_wallet = req[p].effectiveReferrer

(***************************************************************************)
(* C25.  In every reachable state, for every wallet R, referralCount(R)   *)
(* is at most the number of User records whose referredByWallet is R.      *)
(***************************************************************************)
referredBy(R) == { w \in DOMAIN users : users[w].referred_by_wallet = R }

C25_ReferralCountBounded ==
    \A R \in DOMAIN users : users[R].referral_count <= Cardinality(referredBy(R))

\* a call has just counted a new referral for B: the burner's row names B
C25_Witness ==
    \E p \in Slots :
        /\ req[p].pc = "insertBurn"
        /\ req[p].isNewUser
        /\ req[p].effectiveReferrer = AddrB
        /\ HasUser(AddrB)
        /\ users[AddrB].referral_count = 1
        /\ referredBy(AddrB) = {AddrA}

(***************************************************************************)
(* C26.  When a Burn record exists for txHash H, recordBurn with H answers *)
(* success with alreadyCounted = true for every valid claimed wallet, also *)
(* one that is not the recorded burner: magmaPointsTotal is that wallet's  *)
(* own stored total (0 without a User record), isNewUser is true exactly   *)
(* when the wallet has no User record, nothing is awarded and no record    *)
(* changes.  (A storage failure of one of the two SELECTs is the           *)
(* internal-error outcome of C28 and is not this branch.)                  *)
(***************************************************************************)
\* the lookup of line 67 finds the record: the call takes the branch of line 73
C26_LookupStep ==
    \A p \in Slots :
        (/\ req[p].pc = "selectBurn"
         /\ burnRows(req[p].txHash) # {}
         /\ req'[p] # req[p]
         /\ req'[p].pc # "idle") =>
            /\ req'[p].pc = "selectUserDup"
            /\ StoreUnchanged

\* the branch answers from the claimed wallet's own row and writes nothing
C26_AnswerStep ==
    \A p \in Slots :
        (/\ req[p].pc = "selectUserDup"
         /\ req'[p].pc = "idle"
         /\ last'.thrown = "none") =>
            LET w == req[p].wallet
            IN  /\ last'.resp.status = 200
                /\ last'.resp.success
                /\ last'.resp.alreadyCounted
                /\ last'.wallet = w
                /\ last'.resp.magmaPointsTotal =
                       (IF w \in DOMAIN users THEN users[w].magma_points_total ELSE 0)
                /\ last'.resp.isNewUser = (w \notin DOMAIN users)
                /\ last'.resp.awardedPoints = 0
                /\ last'.resp.referralPointsAwarded = 0
                /\ last'.writes = 0
                /\ last'.fetches = 0
                /\ StoreUnchanged
                /\ credited' = credited

C26_AlreadyCountedForAnyWallet == [][C26_LookupStep /\ C26_AnswerStep]_vars

\* wallet B, without a User record, sent the hash of a burn recorded for A
C26_Witness ==
    /\ HasReturned
    /\ last.lookup = "hit"
    /\ last.wallet = AddrB
    /\ Recorded(last.txHash, AddrA)
    /\ ~HasUser(AddrB)
    /\ last.resp.success
    /\ last.resp.alreadyCounted
    /\ last.resp.isNewUser
    /\ last.resp.magmaPointsTotal = 0

(***************************************************************************)
(* C27.  Every getProfile answer with a non-null rank has                  *)
(* 1 <= rank <= totalUsers, also when recordBurn calls write between the   *)
(* handler's three reads.                                                  *)
(* The code does not keep the upper bound: the row is read at line 307,    *)
(* and when the wallet's own total grows before the count of line 339, the *)
(* wallet counts itself among the wallets with more points.                *)
(***************************************************************************)
C27_RankWithinTotalUsers ==
    (ProfileAnswered /\ last.profile.rank # NULL) =>
        /\ 1 <= last.profile.rank[1]
        /\ last.profile.rank[1] <= last.profile.totalUsers

(***************************************************************************)
(* C27, amended.  Every getProfile answer with a non-null rank has         *)
(* 1 <= rank <= totalUsers + 1, also when recordBurn calls write between   *)
(* the reads; and rank <= the number of User records when the wallet's     *)
(* own total is, at the count of line 339, still the one read at line 307. *)
(***************************************************************************)
C27_AnswerBound ==
    (ProfileAnswered /\ last.profile.rank # NULL) =>
        /\ 1 <= last.profile.rank[1]
        /\ last.profile.rank[1] <= last.profile.totalUsers + 1

C27_CountStep ==
    (/\ profile.pc = "countBetter"
     /\ profile'.pc = "countTotal"
     /\ HasUser(profile.wallet)
     /\ users[profile.wallet].magma_points_total = profile.user.magma_points_total) =>
        profile'.rank <= Cardinality(DOMAIN users)

C27_RankWithinTotalUsersPlusOne == [](C27_AnswerBound) /\ [][C27_CountStep]_vars

\* the only User record doubled its total between the reads: rank 2 of 1
C27_Witness ==
    /\ ProfileAnswered
    /\ last.profile.walletAddress = AddrA
    /\ last.profile.magmaPointsTotal = MAGMA_PER_BURN
    /\ last.profile.rank = <<2>>
    /\ last.profile.totalUsers = 1
    /\ users[AddrA].magma_points_total = 2 * MAGMA_PER_BURN

(***************************************************************************)
(* C28.  Every recordBurn invocation ends, and ends by exactly one         *)
(* structured response (status 200, 400, 500 or 502 with a body); whatever *)
(* is thrown inside it (storage failure, rejected insert, unreadable body, *)
(* failed oracle fetch) is answered 500 "Internal error".  Awaited         *)
(* promises are assumed to settle.                                         *)
(***************************************************************************)
StructuredStatuses == {200, 400, 500, 502}

C28_Structured(call) ==
    /\ call.resp.status \in StructuredStatuses
    /\ call.resp.success = (call.resp.status = 200)
    /\ (call.resp.status # 200) => call.resp.error # ""
    /\ (call.thrown # "none") =>
           /\ call.resp.status = 500
           /\ call.resp.error = "Internal error"

C28_ResponseStep ==
    /\ (started' # started /\ req' = req) => C28_Structured(last')
    /\ \A p \in Slots :
           (InFlight(p) /\ req'[p] # req[p]) =>
               IF req'[p].pc = "idle"
                 THEN /\ C28_Structured(last')
                      /\ last'.txHash = req[p].txHash
                      /\ \A q \in Slots \ {p} : req'[q] = req[q]
                 ELSE last' = NoCall

C28_Terminates == \A p \in Slots : InFlight(p) ~> ~InFlight(p)

C28_AlwaysOneStructuredResponse == [][C28_ResponseStep]_vars /\ C28_Terminates

\* a rejected INSERT into magma_burns was caught and answered 500
C28_Witness ==
    /\ last.thrown = "dupBurn"
    /\ last.resp.status = 500
    /\ last.resp.error = "Internal error"
    /\ Quiescent

(***************************************************************************)
(* C30.  getProfile changes no User record and no Burn record, whatever    *)
(* its input: a well-formed address with a record, one without, or a       *)
(* malformed address.                                                      *)
(***************************************************************************)
C30_ProfileStep == profile' # profile \/ last'.profile # NoProfileResponse

C30_ProfileReadsOnly ==
    [][C30_ProfileStep => (StoreUnchanged /\ credited' = credited)]_vars

\* a wallet without a record was answered while records of others exist
C30_Witness ==
    /\ ProfileAnswered
    /\ last.profile.rank = NULL
    /\ ~HasUser(last.profile.walletAddress)
    /\ DOMAIN users # {}
    /\ last.profile.totalUsers = Cardinality(DOMAIN users)

(***************************************************************************)
(* 4.8 The burn form (src/app/components/BurnForm.tsx).  The component's   *)
(* state is kept in `probe`: address (useAccount), txHash and isPending    *)
(* (useWriteContract), receipt (useWaitForTransactionReceipt of txHash),   *)
(* pendingAction and shouldRecordBurn (useState).  `writing` is the action *)
(* whose wallet prompt is open; clicks, writes and moves count events;     *)
(* submittedBy, sent and fetching are history:                             *)
(* the action that submitted each transaction, the record-burn requests    *)
(* sent so far, and the requests not yet answered.  One action per event   *)
(* (click, wallet answer, receipt, account change, request completion),    *)
(* each followed by the effects of the render it causes.                   *)
(***************************************************************************)
MaxClicks == 3

MaxAddressChanges == 1

\* the hash the wallet returns for the n-th writeContract call
FormTxHash(n) == <<TxH1, TxH2, TxH3, TxH4, TxH5>>[n]

FormTxHashes == { FormTxHash(n) : n \in 1..MaxClicks }

\* useAccount().address: a connected account, or undefined
FormAddresses == {AddrA, AddrB, NULL}

InitialForm(address) ==
    [kind |-> "form", address |-> address, txHash |-> NULL, isPending |-> FALSE,
     receipt |-> NULL, pendingAction |-> "none", shouldRecordBurn |-> FALSE,
     writing |-> "none", clicks |-> 0, writes |-> 0, moves |-> 0,
     submittedBy |-> [t \in FormTxHashes |-> "none"], sent |-> << >>, fetching |-> 0]

\* isLoading of useWaitForTransactionReceipt: a hash is awaited
isConfirming(f) == f.txHash # NULL /\ f.receipt = NULL

\* pendingAction === "approve" && (isPending || isConfirming)
isApproveProcessing(f) == f.pendingAction = "approve" /\ (f.isPending \/ isConfirming(f))

\* pendingAction === "burn" && (isPending || isConfirming)
isBurnProcessing(f) == f.pendingAction = "burn" /\ (f.isPending \/ isConfirming(f))

\* lines 431-443: when an approve tx is confirmed, clear pendingAction
approveEffect(f) ==
    IF f.receipt = NULL \/ f.pendingAction # "approve" THEN f
    ELSE [f EXCEPT !.pendingAction = "none"]

\* the dependency list of line 474
recordBurnDeps(f) == <<f.receipt, f.address, f.shouldRecordBurn>>

\* lines 446-474: the effect runs when a dependency changed (f before, g after)
\* and sends the request up to the awaited fetch
recordBurnEffect(f, g) ==
    IF recordBurnDeps(f) = recordBurnDeps(g) THEN g
    ELSE IF g.receipt = NULL \/ g.address = NULL \/ ~g.shouldRecordBurn THEN g
    ELSE [g EXCEPT !.sent = Append(@, [walletAddress |-> g.address, txHash |-> g.receipt]),
                   !.fetching = @ + 1]

\* the render after an event changed the state from f to g, and its effects
Render(f, g) ==
    /\ probe' = approveEffect(recordBurnEffect(f, g))
    /\ UNCHANGED <<users, burns, req, apiKey, started, dbFailures, credited, last, profile>>

\* writeContract(...): the wallet prompt opens, the previous hash is dropped
writeContract(f, action) ==
    [f EXCEPT !.isPending = TRUE, !.writing = action, !.txHash = NULL, !.receipt = NULL,
              !.writes = @ + 1]

\* lines 358-391: onApprove20, onApprove721, onApprove1155
onApprove ==
    /\ probe.address # NULL
    /\ ~isApproveProcessing(probe)
    /\ probe.clicks < MaxClicks
    /\ Render(probe, writeContract([probe EXCEPT !.pendingAction = "approve",
                                                  !.clicks = @ + 1], "approve"))

\* lines 393-428: onBurn; with tokenType "unknown" no branch calls writeContract
onBurn(knownType) ==
    /\ probe.address # NULL
    /\ ~isBurnProcessing(probe)
    /\ probe.clicks < MaxClicks
    /\ LET f == [probe EXCEPT !.pendingAction = "burn", !.shouldRecordBurn = TRUE,
                              !.clicks = @ + 1]
       IN  Render(probe, IF knownType THEN writeContract(f, "burn") ELSE f)

\* useWriteContract: the wallet signed and sent the transaction
WalletSigns ==
    /\ probe.isPending
    /\ LET t == FormTxHash(probe.writes)
       IN  Render(probe, [probe EXCEPT !.isPending = FALSE, !.txHash = t,
                                       !.submittedBy = [@ EXCEPT ![t] = probe.writing],
                                       !.writing = "none"])

\* useWriteContract: the user rejected the prompt (writeErr)
WalletRejects ==
    /\ probe.isPending
    /\ Render(probe, [probe EXCEPT !.isPending = FALSE, !.writing = "none"])

\* useWaitForTransactionReceipt: the transaction of txHash has its confirmations
ReceiptArrives ==
    /\ isConfirming(probe)
    /\ Render(probe, [probe EXCEPT !.receipt = probe.txHash])

\* useAccount: the connected account changes, connects or disconnects
AddressChanges(address) ==
    /\ address # probe.address
    /\ probe.moves < MaxAddressChanges
    /\ Render(probe, [probe EXCEPT !.address = address, !.moves = @ + 1])

\* lines 464-470: the awaited fetch settles; finally { ... }
RequestCompletes ==
    /\ probe.fetching > 0
    /\ Render(probe, [probe EXCEPT !.fetching = @ - 1, !.shouldRecordBurn = FALSE,
                                   !.pendingAction = "none"])

InitForm ==
    /\ users = << >>
    /\ burns = << >>
    /\ req = [p \in Slots |-> IdleSlot]
    /\ apiKey = TRUE
    /\ started = 0
    /\ dbFailures = 0
    /\ credited = NoCredit
    /\ last = NoCall
    /\ profile = IdleProfile
    /\ probe \in { InitialForm(address) : address \in FormAddresses }

NextForm ==
    \/ onApprove
    \/ \E knownType \in BOOLEAN : onBurn(knownType)
    \/ WalletSigns
    \/ WalletRejects
    \/ ReceiptArrives
    \/ \E address \in FormAddresses : AddressChanges(address)
    \/ RequestCompletes

SpecForm == InitForm /\ [][NextForm]_vars

(***************************************************************************)
(* C29.  The burn form sends a record-burn request only for the confirmed  *)
(* receipt of a transaction that the burn action submitted, and at most    *)
(* one request for each such transaction, whatever the order of approve,   *)
(* burn, receipt, account-change and request-completion events.            *)
(* The code violates both halves: shouldRecordBurn is cleared only in the  *)
(* finally block of a request, so a burn that the wallet rejected leaves   *)
(* it set and the next confirmed approve is sent; and the effect runs      *)
(* again when the address changes while the request is awaited.            *)
(***************************************************************************)
C29_OnlyForBurns ==
    \A i \in 1..Len(probe.sent) : probe.submittedBy[probe.sent[i].txHash] = "burn"

C29_AtMostOnce ==
    \A i, j \in 1..Len(probe.sent) :
        probe.sent[i].txHash = probe.sent[j].txHash => i = j

C29_OneRequestPerConfirmedBurn == C29_OnlyForBurns /\ C29_AtMostOnce

====
